---------------------------- MODULE Spec2Model ----------------------------
(***************************************************************************)
(* A model of src/StockTrends.py: the ingestion helper get_data and the    *)
(* moving-average functions get_SMA and get_EMA.                           *)
(*                                                                         *)
(* Prices are binary floating-point numbers.  A number is a pair <<n, d>>  *)
(* standing for n/d in lowest terms (d > 0), and <<0, 0>> is NaN.  Every   *)
(* arithmetic operation of the source is the exact operation followed by   *)
(* rounding to the nearest number with Prec significant bits, ties to even *)
(* (IEEE 754 with a short significand and an unbounded exponent).          *)
(*                                                                         *)
(* Source positions are 0-based as in Python; TLA+ sequences are 1-based,  *)
(* so source position j is element j + 1.                                  *)
(***************************************************************************)
EXTENDS Integers, Sequences, FiniteSets, TLC

VARIABLES
    close_data,    \* the pandas Series handed to get_SMA / get_EMA
    time_period,   \* the period handed to get_SMA / get_EMA
    SMA,           \* outcome of get_SMA(close_data, time_period)
    EMA,           \* outcome of get_EMA(close_data, time_period)
    directory,     \* file name -> file content, as listdir / read_csv see it
    start_date,    \* get_data's start_date string
    end_date,      \* get_data's end_date string
    pos,           \* number of loop iterations of get_data completed
    data,          \* get_data's dictionary, as a sequence of <<key, df>> items
    outcome        \* "idle", "running", "returned" or the exception raised

vars == <<close_data, time_period, SMA, EMA,
          directory, start_date, end_date, pos, data, outcome>>

maVars == <<close_data, time_period, SMA, EMA>>
ingestVars == <<directory, start_date, end_date, pos, data, outcome>>

---------------------------------------------------------------------------
(* Bounds of the model.                                                    *)

Prec == 3        \* significant bits of a floating-point number
MaxLen == 4      \* longest close series
MaxPeriod == 5   \* largest period
MaxRows == 2     \* most rows in a source file

---------------------------------------------------------------------------
(* Floating-point arithmetic.                                              *)

NaN == <<0, 0>>
IsNaN(x) == x[2] = 0

Abs(n) == IF n < 0 THEN -n ELSE n
Max(a, b) == IF a >= b THEN a ELSE b
Min(a, b) == IF a <= b THEN a ELSE b

RECURSIVE GCD(_, _)
GCD(a, b) == IF b = 0 THEN a ELSE GCD(b, a % b)

\* n/d in lowest terms, d > 0.
Norm(n, d) == LET g == GCD(Abs(n), d)
                  s == IF n < 0 THEN -1 ELSE 1
              IN  <<s * (Abs(n) \div g), d \div g>>

Num(n) == <<n, 1>>

\* The exact results, before rounding.
QAdd(a, b) == Norm(a[1] * b[2] + b[1] * a[2], a[2] * b[2])
QSub(a, b) == Norm(a[1] * b[2] - b[1] * a[2], a[2] * b[2])
QMul(a, b) == Norm(a[1] * b[1], a[2] * b[2])
QDiv(a, b) == IF b[1] < 0 THEN Norm(-(a[1] * b[2]), a[2] * (-b[1]))
                          ELSE Norm(a[1] * b[2], a[2] * b[1])

RECURSIVE Pow2(_)
Pow2(k) == IF k = 0 THEN 1 ELSE 2 * Pow2(k - 1)

\* The least j with a < d * 2^j * 2^Prec.
RECURSIVE ExpUp(_, _)
ExpUp(a, d) == IF a < d * Pow2(Prec) THEN 0 ELSE 1 + ExpUp(a, 2 * d)

\* The least j with a * 2^j >= d * 2^(Prec-1).
RECURSIVE ExpDn(_, _)
ExpDn(a, d) == IF a >= d * Pow2(Prec - 1) THEN 0 ELSE 1 + ExpDn(2 * a, d)

\* n/d (n, d > 0) to the nearest integer, ties to the even one.
RoundDiv(n, d) == LET m == n \div d
                      r == n % d
                  IN  IF 2 * r > d \/ (2 * r = d /\ m % 2 = 1) THEN m + 1 ELSE m

\* Round to nearest, ties to even, Prec significant bits.
Round(q) ==
    IF IsNaN(q) \/ q[1] = 0 THEN q
    ELSE LET s  == IF q[1] < 0 THEN -1 ELSE 1
             a  == Abs(q[1])
             d  == q[2]
             up == ExpUp(a, d)
             dn == ExpDn(a, d)
             m  == RoundDiv(a * Pow2(dn), d * Pow2(up))
         IN  Norm(s * m * Pow2(up), Pow2(dn))

FAdd(a, b) == IF IsNaN(a) \/ IsNaN(b) THEN NaN ELSE Round(QAdd(a, b))
FSub(a, b) == IF IsNaN(a) \/ IsNaN(b) THEN NaN ELSE Round(QSub(a, b))
FMul(a, b) == IF IsNaN(a) \/ IsNaN(b) THEN NaN ELSE Round(QMul(a, b))
\* numpy's float64 division: 0.0/0 is NaN.  The only zero divisor the
\* source can meet is time_period = 0, whose dividend is the sum of an empty
\* window, 0.0.
FDiv(a, b) == IF IsNaN(a) \/ IsNaN(b) \/ b[1] = 0 THEN NaN ELSE Round(QDiv(a, b))

---------------------------------------------------------------------------
(* pandas helpers.                                                         *)

Timestamp(y, m, d) == [year |-> y, month |-> m, day |-> d]

\* seq[start:] with Python's slice rules (a negative start counts from the end).
SliceFrom(seq, start) ==
    LET n    == Len(seq)
        from == IF start < 0 THEN Max(n + start, 0) ELSE Min(start, n)
    IN  SubSeq(seq, from + 1, n)

\* range(a, b) as the sequence of its elements.
Range(a, b) == [j \in 1..Max(b - a, 0) |-> a + j - 1]

\* np.sum over a sequence of floats, left to right from 0.0.
RECURSIVE np_sum(_)
np_sum(xs) == IF Len(xs) = 0 THEN Num(0)
              ELSE FAdd(np_sum(SubSeq(xs, 1, Len(xs) - 1)), xs[Len(xs)])

NoResult == [status |-> "none", name |-> <<0, "">>, values |-> <<>>,
             index |-> <<>>, computed |-> 0]

\* pd.Series(values, name = label, index = dates): the lengths must agree.
Series(values, label, dates) ==
    IF Len(values) # Len(dates)
    THEN [status |-> "ValueError", name |-> label, values |-> <<>>,
          index |-> <<>>, computed |-> Len(values)]
    ELSE [status |-> "ok", name |-> label, values |-> values,
          index |-> dates, computed |-> Len(values)]

Raised(err, label, n) ==
    [status |-> err, name |-> label, values |-> <<>>, index |-> <<>>,
     computed |-> n]

---------------------------------------------------------------------------
(* get_SMA and get_EMA.                                                    *)

\* The conventional trailing window, which ends at the labelled day.
SMAWindowTrailing(ii, period) == Range(ii + 1, ii + period + 1)

\* The window of get_SMA's iteration ii: range(ii, ii + time_period).
SMAWindow(ii, period) == Range(ii, ii + period)

\* One entry too many.
ResultListInclusive(cd, period) == Range(0, Len(cd.values) - period + 1)

\* The list get_SMA and get_EMA start from: list(range(0, len - period)).
ResultList(cd, period) == Range(0, Len(cd.values) - period)

\* Labels that start one day early.
ResultDatesTrailing(cd, period) == SliceFrom(cd.index, period - 1)

\* The dates both functions label their output with: index[time_period:].
ResultDates(cd, period) == SliceFrom(cd.index, period)

get_SMA(cd, period) ==
    LET n      == Len(cd.values)
        label  == <<period, "SMA">>
        list   == ResultList(cd, period)
        index(ii) == SMAWindow(ii, period)
        \* close_data.iloc[index] raises IndexError past the end of the data
        inside(ii) == \A j \in 1..Len(index(ii)) : index(ii)[j] < n
        prev_days(ii) == [j \in 1..Len(index(ii)) |-> cd.values[index(ii)[j] + 1]]
        avg(ii) == FDiv(np_sum(prev_days(ii)), Num(period))
        dates  == ResultDates(cd, period)
        done   == Cardinality({k \in 1..Len(list) :
                                 \A h \in 1..k : inside(h - 1)})
    IN  IF done < Len(list)
        THEN Raised("IndexError", label, done)
        ELSE Series([k \in 1..Len(list) |-> avg(k - 1)], label, dates)

\* The smoothing factor without the + 1.
WeightNoPlusOne(period) == FDiv(Num(2), Num(period))

\* The smoothing factor, 2.0 / (time_period + 1).
Weight(period) == FDiv(Num(2), Num(period + 1))

\* A step that adds the correction to the close price instead of the previous EMA.
EMAStepOntoClose(close_temp, prev, k) ==
    FAdd(FMul(FSub(close_temp, prev), k), close_temp)

\* One step of the recurrence: (close_temp - prev)*k + prev.
EMAStep(close_temp, prev, k) == FAdd(FMul(FSub(close_temp, prev), k), prev)

\* The close price get_EMA reads in iteration ii: close_data[time_period + ii].
EMAClose(cd, period, ii) == cd.values[period + ii + 1]

\* get_EMA's loop from iteration ii on; acc holds EMA[0 .. ii-1].
RECURSIVE EMALoop(_, _, _, _, _, _)
EMALoop(cd, period, k, initial_EMA, ii, acc) ==
    IF ii >= Len(ResultList(cd, period)) THEN acc
    ELSE LET close_temp == EMAClose(cd, period, ii)
             EMA_temp   == IF ii = 0
                           THEN EMAStep(close_temp, initial_EMA, k)
                           ELSE EMAStep(close_temp, acc[ii], k)
         IN  EMALoop(cd, period, k, initial_EMA, ii + 1, Append(acc, EMA_temp))

\* A get_EMA that reads its seed only when the loop runs, and so returns an
\* empty Series where there is no seed.
get_EMA_SeedInLoop(cd, period) ==
    LET label == <<period, "EMA">>
        sma   == get_SMA(cd, period)
    IN  IF Len(ResultList(cd, period)) = 0
        THEN Series(<<>>, label, ResultDates(cd, period))
        ELSE IF sma.status # "ok" THEN Raised(sma.status, label, sma.computed)
        ELSE Series(EMALoop(cd, period, Weight(period), sma.values[1], 0, <<>>),
                    label, ResultDates(cd, period))

\* initial_EMA = get_SMA(close_data, time_period)[0] raises what get_SMA
\* raises, and IndexError when get_SMA's Series is empty.
get_EMA(cd, period) ==
    LET label == <<period, "EMA">>
        sma   == get_SMA(cd, period)
    IN  IF sma.status # "ok" THEN Raised(sma.status, label, sma.computed)
        ELSE IF Len(sma.values) = 0 THEN Raised("IndexError", label, 0)
        ELSE IF period + 1 = 0 THEN Raised("ZeroDivisionError", label, 0)
        ELSE Series(EMALoop(cd, period, Weight(period), sma.values[1], 0, <<>>),
                    label, ResultDates(cd, period))

---------------------------------------------------------------------------
(* Strings, as Python compares them, and pd.Timestamp.                     *)

\* ord(c) for the characters of a date string.
Ord(c) == CASE c = "-" -> 45 [] c = "0" -> 48 [] c = "1" -> 49
            [] c = "2" -> 50 [] c = "3" -> 51 [] c = "4" -> 52
            [] c = "5" -> 53 [] c = "6" -> 54 [] c = "7" -> 55
            [] c = "8" -> 56 [] c = "9" -> 57

\* a < b for two str objects: the first differing character decides, and a
\* proper prefix is smaller.
RECURSIVE StrLess(_, _)
StrLess(a, b) ==
    IF Len(b) = 0 THEN FALSE
    ELSE IF Len(a) = 0 THEN TRUE
    ELSE IF Ord(a[1]) # Ord(b[1]) THEN Ord(a[1]) < Ord(b[1])
    ELSE StrLess(Tail(a), Tail(b))

StrGreater(a, b) == StrLess(b, a)
StrLessEq(a, b) == ~StrLess(b, a)

DigitChars == <<"0", "1", "2", "3", "4", "5", "6", "7", "8", "9">>
DigitOf(c) == Ord(c) - Ord("0")

\* The text of a date as the source files and the callers write it,
\* "YYYY-MM-DD".
Digit(k) == DigitChars[(k % 10) + 1]
ISODate(y, m, d) ==
    << Digit(y \div 1000), Digit(y \div 100), Digit(y \div 10), Digit(y), "-",
       Digit(m \div 10), Digit(m), "-", Digit(d \div 10), Digit(d) >>

IsLeap(y) == (y % 4 = 0 /\ y % 100 # 0) \/ y % 400 = 0
DaysInMonth(y, m) == IF m = 2 THEN (IF IsLeap(y) THEN 29 ELSE 28)
                     ELSE IF m \in {4, 6, 9, 11} THEN 30 ELSE 31

\* The fields pd.Timestamp reads from a "YYYY-MM-DD" string.
DateFields(s) ==
    [year  |-> 1000 * DigitOf(s[1]) + 100 * DigitOf(s[2])
               + 10 * DigitOf(s[3]) + DigitOf(s[4]),
     month |-> 10 * DigitOf(s[6]) + DigitOf(s[7]),
     day   |-> 10 * DigitOf(s[9]) + DigitOf(s[10])]

\* pd.Timestamp(s) raises ValueError unless s names a day of the calendar.
Parseable(s) ==
    LET f == DateFields(s)
    IN  /\ f.month \in 1..12
        /\ f.day \in 1..DaysInMonth(f.year, f.month)

ParseTimestamp(s) == LET f == DateFields(s) IN Timestamp(f.year, f.month, f.day)

---------------------------------------------------------------------------
(* get_data.                                                               *)

\* listdir(data_prefix): the files of the data directory.
file_names == << <<"0", "1", "A", "D", "I", ".", "c", "s", "v">>,
                 <<"0", "2", "T", "X", "N", ".", "c", "s", "v">> >>

\* file_name[:-4]
KeyOf(file_name) == SubSeq(file_name, 1, Max(Len(file_name) - 4, 0))

\* A mask that keeps the rows dated start_date.
MaskClosed(row, sd, ed) == ~StrLess(row.Date, sd) /\ StrLessEq(row.Date, ed)

\* mask = (df["Date"] > start_date) & (df["Date"] <= end_date), on strings.
Mask(row, sd, ed) == StrGreater(row.Date, sd) /\ StrLessEq(row.Date, ed)

\* df.loc[mask]
Select(rows, sd, ed) == SelectSeq(rows, LAMBDA row : Mask(row, sd, ed))

\* pd.DataFrame(df.values, columns = df.columns, index = dates)
DataFrame(rows) ==
    [k \in 1..Len(rows) |->
        [date |-> ParseTimestamp(rows[k].Date), Close |-> rows[k].Close]]

\* data.update({key: df})
Update(dict, key, df) ==
    IF \E k \in 1..Len(dict) : dict[k][1] = key
    THEN [k \in 1..Len(dict) |-> IF dict[k][1] = key THEN <<key, df>> ELSE dict[k]]
    ELSE Append(dict, <<key, df>>)

\* One iteration of get_data's loop over csv, the content of one file:
\* the exception it raises, or "ok" and the DataFrame it stores.
ReadOne(csv, sd, ed) ==
    IF ~csv.has_Date THEN [status |-> "KeyError", df |-> <<>>]
    ELSE LET selected == Select(csv.rows, sd, ed)
         IN  IF \E k \in 1..Len(selected) : ~Parseable(selected[k].Date)
             THEN [status |-> "ValueError", df |-> <<>>]
             ELSE [status |-> "ok", df |-> DataFrame(selected)]

---------------------------------------------------------------------------
(* The moving-average calls: get_SMA and get_EMA on one close series.      *)

\* Close prices, each a floating-point number.
CloseValues == {Num(1), Num(2), Num(12)}

RECURSIVE SeqsUpTo(_, _)
SeqsUpTo(S, n) ==
    IF n = 0 THEN {<<>>}
    ELSE LET shorter == SeqsUpTo(S, n - 1)
         IN  shorter \cup {Append(q, x) : q \in shorter, x \in S}

\* The index of a close series of n trading days.
TradingDays(n) == [j \in 1..n |-> Timestamp(2015, 6, j)]

CloseSeries == {[index |-> TradingDays(Len(v)), values |-> v] :
                   v \in SeqsUpTo(CloseValues, MaxLen)}

Periods == (0 - 2)..MaxPeriod

IngestIdle ==
    /\ directory = <<>>
    /\ start_date = <<>>
    /\ end_date = <<>>
    /\ pos = 0
    /\ data = <<>>
    /\ outcome = "idle"

Init ==
    /\ close_data \in CloseSeries
    /\ time_period \in Periods
    /\ SMA = NoResult
    /\ EMA = NoResult
    /\ IngestIdle

\* SMA = get_SMA(close_data, time_period)
CallSMA ==
    /\ SMA.status = "none"
    /\ SMA' = get_SMA(close_data, time_period)
    /\ UNCHANGED <<close_data, time_period, EMA, ingestVars>>

\* EMA = get_EMA(close_data, time_period)
CallEMA ==
    /\ EMA.status = "none"
    /\ EMA' = get_EMA(close_data, time_period)
    /\ UNCHANGED <<close_data, time_period, SMA, ingestVars>>

Next == CallSMA \/ CallEMA

Spec == Init /\ [][Next]_vars

---------------------------------------------------------------------------
(* The ingestion call: get_data over the files of the directory.           *)

\* The Date strings a source file may hold; the last names no calendar day.
RowDates == {ISODate(2015, 1, 31), ISODate(2015, 2, 1), ISODate(2015, 2, 3),
             ISODate(2015, 2, 30)}

StartDates == {ISODate(2015, 1, 1), ISODate(2015, 1, 31), ISODate(2015, 2, 1)}
EndDates == {ISODate(2015, 2, 1), ISODate(2015, 2, 3), ISODate(2015, 12, 31)}

\* A file with a Date column: row k holds the k-th date and, as its Close,
\* the number k.
CsvOf(dates) ==
    [has_Date |-> TRUE,
     rows |-> [k \in 1..Len(dates) |-> [Date |-> dates[k], Close |-> Num(k)]]]

\* A file without a Date column.
CsvNoDate == [has_Date |-> FALSE, rows |-> <<>>]

FileContents == {CsvNoDate} \cup {CsvOf(ds) : ds \in SeqsUpTo(RowDates, MaxRows)}

MAIdle ==
    /\ close_data = [index |-> <<>>, values |-> <<>>]
    /\ time_period = 1
    /\ SMA = NoResult
    /\ EMA = NoResult

InitIngest ==
    /\ MAIdle
    /\ directory \in [1..Len(file_names) -> FileContents]
    /\ start_date \in StartDates
    /\ end_date \in EndDates
    /\ pos = 0
    /\ data = <<>>
    /\ outcome = "running"

\* One iteration of the loop that succeeds: the DataFrame is stored.
ReadFile ==
    /\ outcome = "running"
    /\ pos < Len(file_names)
    /\ LET r == ReadOne(directory[pos + 1], start_date, end_date)
       IN  /\ r.status = "ok"
           /\ data' = Update(data, KeyOf(file_names[pos + 1]), r.df)
    /\ pos' = pos + 1
    /\ UNCHANGED <<directory, start_date, end_date, outcome, maVars>>

\* One iteration of the loop that raises: the exception leaves get_data.
ReadFails ==
    /\ outcome = "running"
    /\ pos < Len(file_names)
    /\ LET r == ReadOne(directory[pos + 1], start_date, end_date)
       IN  /\ r.status # "ok"
           /\ outcome' = r.status
    /\ UNCHANGED <<directory, start_date, end_date, pos, data, maVars>>

\* return data
Return ==
    /\ outcome = "running"
    /\ pos = Len(file_names)
    /\ outcome' = "returned"
    /\ UNCHANGED <<directory, start_date, end_date, pos, data, maVars>>

NextIngest == ReadFile \/ ReadFails \/ Return

SpecIngest == InitIngest /\ [][NextIngest]_vars

---------------------------------------------------------------------------
(* Properties of get_SMA and get_EMA, under Spec.                          *)

closes == close_data.values
nClose == Len(close_data.values)
Called(r) == r.status # "none"

\* close[from] + ... + close[from + cnt - 1] (0-based), summed left to right.
RECURSIVE WindowSum(_, _, _)
WindowSum(v, from, cnt) ==
    IF cnt = 0 THEN Num(0)
    ELSE FAdd(WindowSum(v, from, cnt - 1), v[from + cnt])

\* The arithmetic mean of the cnt prices from position from on, as floating
\* point computes it.
WindowMean(v, from, cnt) == FDiv(WindowSum(v, from, cnt), Num(cnt))

\* C1: for period >= 1 and a series longer than the period, output position
\* i of get_SMA is the mean of the close prices at positions i .. i+period-1
\* and carries the date at position period+i.
C1_SMAWindowAndLabel ==
    (Called(SMA) /\ time_period >= 1 /\ nClose > time_period) =>
        /\ SMA.status = "ok"
        /\ \A i \in 0..(nClose - time_period - 1) :
              /\ SMA.values[i + 1] = WindowMean(closes, i, time_period)
              /\ SMA.index[i + 1] = close_data.index[time_period + i + 1]

\* A series whose first two windows differ, with a period of at least 2.
C1_Witness ==
    /\ SMA.status = "ok"
    /\ time_period >= 2
    /\ Len(SMA.values) >= 2
    /\ SMA.values[1] # SMA.values[2]
    /\ closes[1] # closes[time_period + 1]

\* C2: for period >= 1 get_SMA returns a Series of max(len - period, 0)
\* entries, and raises nothing when the period reaches the length.
C2_SMALength ==
    (Called(SMA) /\ time_period >= 1) =>
        /\ SMA.status = "ok"
        /\ Len(SMA.values) = Max(nClose - time_period, 0)
        /\ Len(SMA.index) = Len(SMA.values)

\* A non-empty series no longer than the period: the empty result.
C2_Witness ==
    /\ SMA.status = "ok"
    /\ nClose >= 1
    /\ time_period >= nClose
    /\ SMA.values = <<>>

\* C3: for period >= 1 and a series longer than the period, get_EMA's first
\* value steps from the seed (the mean of close[0..period-1], the first value
\* of get_SMA) to close[period], and every later value steps from the value
\* emitted before it to close[period+i], with k = 2/(period+1).
C3_EMARecurrence ==
    (Called(EMA) /\ time_period >= 1 /\ nClose > time_period) =>
        LET k    == FDiv(Num(2), Num(time_period + 1))
            seed == WindowMean(closes, 0, time_period)
            close(j) == closes[j + 1]
            e(i) == EMA.values[i + 1]
        IN  /\ EMA.status = "ok"
            /\ Len(EMA.values) = nClose - time_period
            /\ Called(SMA) => (SMA.status = "ok" /\ seed = SMA.values[1])
            /\ e(0) = FAdd(FMul(FSub(close(time_period), seed), k), seed)
            /\ \A i \in 1..(nClose - time_period - 1) :
                  e(i) = FAdd(FMul(FSub(close(time_period + i), e(i - 1)), k),
                              e(i - 1))

\* Two EMA values that differ, with a period of at least 2 and the SMA at hand.
C3_Witness ==
    /\ EMA.status = "ok"
    /\ SMA.status = "ok"
    /\ time_period >= 2
    /\ Len(EMA.values) >= 2
    /\ EMA.values[1] # EMA.values[2]
    /\ EMA.values[1] # SMA.values[1]

\* A call that fails at once: an exception, and no value computed before it.
FailsImmediately(r) == r.status \notin {"none", "ok"} /\ r.computed = 0

\* C4: get_SMA and get_EMA called with a period below 1 fail immediately:
\* nothing is computed before the failure and no Series is returned.
C4_PeriodBelowOneFails ==
    time_period < 1 =>
        /\ Called(SMA) => FailsImmediately(SMA)
        /\ Called(EMA) => FailsImmediately(EMA)

\* C5: for period >= 1 that reaches the length of the series, get_EMA raises
\* to its caller and returns no Series, while get_SMA returns an empty Series.
C5_EMAInsufficientData ==
    (time_period >= 1 /\ time_period >= nClose) =>
        /\ Called(EMA) => (EMA.status = "IndexError" /\ EMA.values = <<>>
                              /\ EMA.index = <<>>)
        /\ Called(SMA) => (SMA.status = "ok" /\ SMA.values = <<>>)

\* Both calls made on a non-empty series no longer than the period.
C5_Witness ==
    /\ time_period >= 1
    /\ nClose >= 1
    /\ time_period >= nClose
    /\ EMA.status = "IndexError"
    /\ SMA.status = "ok"

\* C9: for period >= 1 and a series longer than the period, get_EMA and
\* get_SMA return len - period entries each, labelled position by position
\* with the same dates, index[period:].
C9_SameLengthAndDates ==
    (Called(SMA) /\ Called(EMA) /\ time_period >= 1 /\ nClose > time_period) =>
        /\ SMA.status = "ok"
        /\ EMA.status = "ok"
        /\ Len(SMA.values) = nClose - time_period
        /\ Len(EMA.values) = nClose - time_period
        /\ EMA.index = SMA.index
        /\ \A i \in 0..(nClose - time_period - 1) :
              EMA.index[i + 1] = close_data.index[time_period + i + 1]

\* Both calls returned at least two labelled values.
C9_Witness ==
    /\ SMA.status = "ok"
    /\ EMA.status = "ok"
    /\ time_period >= 1
    /\ Len(EMA.values) >= 2
    /\ Len(SMA.index) >= 2

\* a <= b for two numbers.
QLeq(a, b) == a[1] * b[2] <= b[1] * a[2]

MinClose == CHOOSE x \in {closes[j] : j \in 1..nClose} :
                \A j \in 1..nClose : QLeq(x, closes[j])
MaxClose == CHOOSE x \in {closes[j] : j \in 1..nClose} :
                \A j \in 1..nClose : QLeq(closes[j], x)

\* Every EMA value lies between the smallest and the largest close price,
\* and for period 1 the output is close[1:].
EMAWithinCloses ==
    /\ \A i \in 1..Len(EMA.values) :
          /\ ~IsNaN(EMA.values[i])
          /\ QLeq(MinClose, EMA.values[i])
          /\ QLeq(EMA.values[i], MaxClose)
    /\ time_period = 1 => EMA.values = SubSeq(closes, 2, nClose)

\* C10 as stated: for period >= 1 and a series longer than the period, every
\* value get_EMA emits lies between the minimum and the maximum close price,
\* and for period 1 the output equals close[1:] exactly.
C10_Original ==
    (EMA.status = "ok" /\ time_period >= 1 /\ nClose > time_period) =>
        EMAWithinCloses

Representable(q) == Round(q) = q

\* No step of the recurrence from iteration ii on rounds, prev being the
\* exact previous value.
RECURSIVE StepsExact(_, _, _, _, _)
StepsExact(v, period, k, prev, ii) ==
    IF period + ii >= Len(v) THEN TRUE
    ELSE LET c == v[period + ii + 1]
             d == QSub(c, prev)
             m == QMul(d, k)
             r == QAdd(m, prev)
         IN  /\ Representable(d)
             /\ Representable(m)
             /\ Representable(r)
             /\ StepsExact(v, period, k, r, ii + 1)

RECURSIVE ExactSum(_, _)
ExactSum(v, cnt) == IF cnt = 0 THEN Num(0) ELSE QAdd(ExactSum(v, cnt - 1), v[cnt])

\* No floating-point operation of get_EMA(v, period) rounds: the partial
\* sums of the seed, the seed, k, and every difference, product and sum of
\* the recurrence are floating-point numbers.
NoRounding(v, period) ==
    /\ \A j \in 1..period : Representable(ExactSum(v, j))
    /\ Representable(QDiv(ExactSum(v, period), Num(period)))
    /\ Representable(QDiv(Num(2), Num(period + 1)))
    /\ StepsExact(v, period, QDiv(Num(2), Num(period + 1)),
                  QDiv(ExactSum(v, period), Num(period)), 0)

\* C10, amended: for period >= 1 and a series longer than the period, when
\* no floating-point operation of the computation rounds, every value
\* get_EMA emits lies between the minimum and the maximum close price, and
\* for period 1 the output equals close[1:].
C10_WithinClosesWhenExact ==
    (EMA.status = "ok" /\ time_period >= 1 /\ nClose > time_period
       /\ NoRounding(closes, time_period)) =>
        EMAWithinCloses

\* An exact computation with a period of at least 2 over prices that differ.
C10_Witness ==
    /\ EMA.status = "ok"
    /\ time_period >= 2
    /\ nClose > time_period
    /\ NoRounding(closes, time_period)
    /\ MinClose # MaxClose
    /\ EMA.values[1] # closes[time_period + 1]

---------------------------------------------------------------------------
(* Properties of get_data, under SpecIngest.                               *)

\* The file whose DataFrame is the k-th item of data: the files are read in
\* the order of file_names and their keys differ.
FileOfItem(k) == directory[k]

\* Calendar order of two Timestamps.
TsLess(a, b) ==
    \/ a.year < b.year
    \/ a.year = b.year /\ a.month < b.month
    \/ a.year = b.year /\ a.month = b.month /\ a.day < b.day

\* start_date < ts <= end_date in calendar order.
InInterval(ts) ==
    /\ TsLess(ParseTimestamp(start_date), ts)
    /\ ~TsLess(ParseTimestamp(end_date), ts)

\* The rows of a file dated within (start_date, end_date], in file order.
RowsInInterval(csv) ==
    SelectSeq(csv.rows,
              LAMBDA row : Parseable(row.Date) /\ InInterval(ParseTimestamp(row.Date)))

\* Every row of the file names a day from start_date to end_date.
SpansAllRows(csv) ==
    \A j \in 1..Len(csv.rows) :
        /\ Parseable(csv.rows[j].Date)
        /\ ~TsLess(ParseTimestamp(csv.rows[j].Date), ParseTimestamp(start_date))
        /\ ~TsLess(ParseTimestamp(end_date), ParseTimestamp(csv.rows[j].Date))

RowsDatedStart(csv) ==
    Cardinality({j \in 1..Len(csv.rows) :
                    /\ Parseable(csv.rows[j].Date)
                    /\ ParseTimestamp(csv.rows[j].Date) = ParseTimestamp(start_date)})

C7_FailureIsLocal ==
    outcome \notin {"idle", "running"} =>
        /\ outcome = "returned"
        /\ \A k \in 1..Len(file_names) :
              ReadOne(directory[k], start_date, end_date).status = "ok" =>
                  \E i \in 1..Len(data) : data[i][1] = KeyOf(file_names[k])

\* C8: every DataFrame get_data returns has strictly increasing dates,
\* whatever the order of the rows in the file.
C8_DatesIncreasing ==
    outcome = "returned" =>
        \A k \in 1..Len(data) :
            \A j \in 1..(Len(data[k][2]) - 1) :
                TsLess(data[k][2][j].date, data[k][2][j + 1].date)

====
